---- MODULE Spec2Model ----
(***************************************************************************)
(* Spaced-repetition scheduler (SRSAlgorithm) and the flashcard review     *)
(* session of FlashcardSystem.                                             *)
(*                                                                         *)
(* Number representation.  The source computes with JavaScript numbers.    *)
(*   - ease factors are kept in hundredths (2.5 is 250), which is exact    *)
(*     for every constant the scheduler adds or subtracts;                 *)
(*   - intervals are exact fractions [num, den] of a day, den a power of   *)
(*     five, since 'hard' multiplies by 1.2 = 6/5 without rounding;        *)
(*   - instants are counted in ticks of MsPerTick milliseconds, so that a  *)
(*     day (24*60*60*1000 ms) is DAY ticks.                                *)
(***************************************************************************)
EXTENDS Integers, Sequences, FiniteSets, TLC

(***************************************************************************)
(* Bounds of the model                                                     *)
(***************************************************************************)
MaxEaseSteps == 40
MaxInterval == 16
MaxReps == 3
MaxFnNow == 1
MaxReviews == 4
MaxGap == 2
MaxDecks == 1
MaxCards == 2
MaxDays == 1
MaxAnswers == 2
MaxSelCards == 3
MaxLimit == 2
MaxUpdCards == 2
MaxActivities == 2
MaxEpisodes == 2
MaxOps == 4
MaxCalls == 2

(***************************************************************************)
(* Representation                                                          *)
(***************************************************************************)
EaseScale == 10 * 10
EaseStep == EaseScale \div 20
MsPerTick == 1024 * 27
DAY == (24 * 60 * 60 * 1000) \div MsPerTick

Difficulties == {"again", "hard", "good", "easy"}

Max(a, b) == IF a >= b THEN a ELSE b

\* a fraction of a day; den is a power of five
Frac(n, d) == [num |-> n, den |-> d]
Whole(n) == Frac(n, 1)

RECURSIVE Norm(_)
Norm(q) ==
  IF q.den > 1 /\ q.num % 5 = 0
    THEN Norm(Frac(q.num \div 5, q.den \div 5))
    ELSE q

IsWhole(q) == Norm(q).den = 1
FracGeq(p, q) == p.num * q.den >= q.num * p.den
FracMax(p, q) == IF FracGeq(p, q) THEN p ELSE q

\* Math.round of the fraction n/d (d > 0): nearest integer, halves go up
MathRound(n, d) == (2 * n + d) \div (2 * d)

(***************************************************************************)
(* SRSAlgorithm                                                            *)
(***************************************************************************)
INITIAL_EASE_FACTOR == 250
MINIMUM_EASE_FACTOR == 130
EASE_FACTOR_MODIFIER == 10
MINIMUM_INTERVAL == 1

\* case 'again'
againInterval_zero == Whole(0)
againInterval == Whole(MINIMUM_INTERVAL)
againEaseFactor_noFloor(easeFactor) == easeFactor - 80
againEaseFactor(easeFactor) == Max(MINIMUM_EASE_FACTOR, easeFactor - 80)

\* case 'hard': Math.max(MINIMUM_INTERVAL, interval * 1.2), not rounded
hardInterval(interval) ==
  FracMax(Whole(MINIMUM_INTERVAL), Norm(Frac(interval.num * 6, interval.den * 5)))
hardEaseFactor(easeFactor) == Max(MINIMUM_EASE_FACTOR, easeFactor - 15)

\* case 'good'
goodInterval_firstSix(interval, easeFactor, repetitions) ==
  IF repetitions = 0 THEN Whole(6)
  ELSE IF repetitions = 1 THEN Whole(1)
  ELSE Whole(MathRound(interval.num * easeFactor, interval.den * EaseScale))
goodInterval_alwaysMultiply(interval, easeFactor, repetitions) ==
  Whole(MathRound(interval.num * easeFactor, interval.den * EaseScale))
goodInterval(interval, easeFactor, repetitions) ==
  IF repetitions = 0 THEN Whole(1)
  ELSE IF repetitions = 1 THEN Whole(6)
  ELSE Whole(MathRound(interval.num * easeFactor, interval.den * EaseScale))

\* case 'easy': the interval uses the ease factor before the bump
easyInterval_postBump(interval, easeFactor, repetitions) ==
  IF repetitions = 0 THEN Whole(4)
  ELSE IF repetitions = 1 THEN Whole(6)
  ELSE Whole(MathRound(interval.num * (easeFactor + EASE_FACTOR_MODIFIER) * 13,
                       interval.den * EaseScale * 10))
easyInterval(interval, easeFactor, repetitions) ==
  IF repetitions = 0 THEN Whole(4)
  ELSE IF repetitions = 1 THEN Whole(6)
  ELSE Whole(MathRound(interval.num * easeFactor * 13,
                       interval.den * EaseScale * 10))
easyEaseFactor(easeFactor) == easeFactor + EASE_FACTOR_MODIFIER

newInterval(flashcard, difficulty) ==
  CASE difficulty = "again" -> againInterval
    [] difficulty = "hard" -> hardInterval(flashcard.interval)
    [] difficulty = "good" ->
         goodInterval(flashcard.interval, flashcard.easeFactor, flashcard.repetitions)
    [] difficulty = "easy" ->
         easyInterval(flashcard.interval, flashcard.easeFactor, flashcard.repetitions)

newEaseFactor(flashcard, difficulty) ==
  CASE difficulty = "again" -> againEaseFactor(flashcard.easeFactor)
    [] difficulty = "hard" -> hardEaseFactor(flashcard.easeFactor)
    [] difficulty = "good" -> flashcard.easeFactor
    [] difficulty = "easy" -> easyEaseFactor(flashcard.easeFactor)

newRepetitions_keepOnAgain(flashcard, difficulty) ==
  IF difficulty = "again" THEN flashcard.repetitions ELSE flashcard.repetitions + 1
newRepetitions(flashcard, difficulty) ==
  IF difficulty = "again" THEN 0 ELSE flashcard.repetitions + 1

\* now + (newInterval * 24 * 60 * 60 * 1000)
nextReviewAt(now, interval) == now + (interval.num * DAY) \div interval.den

calculateNextReview_oldInterval(flashcard, difficulty, now) ==
  [ lastReviewed |-> now,
    nextReview   |-> nextReviewAt(now, flashcard.interval),
    easeFactor   |-> newEaseFactor(flashcard, difficulty),
    interval     |-> newInterval(flashcard, difficulty),
    repetitions  |-> newRepetitions(flashcard, difficulty),
    difficulty   |-> difficulty ]
calculateNextReview(flashcard, difficulty, now) ==
  [ lastReviewed |-> now,
    nextReview   |-> nextReviewAt(now, newInterval(flashcard, difficulty)),
    easeFactor   |-> newEaseFactor(flashcard, difficulty),
    interval     |-> newInterval(flashcard, difficulty),
    repetitions  |-> newRepetitions(flashcard, difficulty),
    difficulty   |-> difficulty ]

\* { ...card, ...updates }
Merge(card, updates) ==
  [ f \in DOMAIN card |-> IF f \in DOMAIN updates THEN updates[f] ELSE card[f] ]

\* 2024-10-04, in ticks since the epoch
ClockStart == 20000 * DAY

\* column defaults of CREATE TABLE flashcards for a row inserted at 'now'
NewCard(id, deckId, now) ==
  [ id           |-> id,
    deckId       |-> deckId,
    front        |-> "text",
    lastReviewed |-> 0,
    nextReview   |-> now,
    easeFactor   |-> INITIAL_EASE_FACTOR,
    interval     |-> Whole(0),
    repetitions  |-> 0,
    difficulty   |-> "good" ]

(***************************************************************************)
(* State                                                                   *)
(***************************************************************************)
VARIABLES
  fnCard,        \* argument 'flashcard' of one call of calculateNextReview
  fnDifficulty,  \* argument 'difficulty' of that call
  fnNow,         \* what Date.now() returns inside that call
  fnDelta,       \* << >> before the call, <<returned delta>> after it
  chCard,        \* one card followed through its reviews
  chNow,         \* the clock of that card's reviews
  chDelta,       \* << >>, or <<delta returned by the latest review>>
  chCount,       \* number of reviews applied to chCard
  chHistory,     \* the difficulties of those reviews, oldest first
  selCards,      \* argument 'flashcards' of getDueCards and getNewCards
  selNow,        \* what Date.now() returns inside getDueCards
  selLimit,      \* argument 'limit' of getNewCards
  selDue,        \* << >>, or <<sequence returned by getDueCards>>
  selNew,        \* << >>, or <<sequence returned by getNewCards>>
  selQueue,      \* << >>, or <<queue built from selCards by startReview>>
  now,           \* the clock read by Date.now() and by the table default now()
  db,            \* rows of table flashcards, in insertion order
  flashcards,    \* useFlashcards: the local list
  error,         \* useFlashcards: whether an error has been recorded
  currentView,   \* FlashcardSystem state
  reviewQueue,   \* FlashcardSystem state: the remaining queue
  currentCard,   \* FlashcardSystem state: << >> for null, else <<card>>
  showAnswer,    \* FlashcardSystem state
  sessionStats,  \* FlashcardSystem state
  selectedDeck,  \* FlashcardSystem state: << >> for null, else <<deck id>>
  editingCard,   \* FlashcardSystem state: << >> for null, else <<card>>
  alertShown,    \* whether the alert() dialog of startReview is open
  answers,       \* number of answers given so far
  sessionLength, \* length of the queue the latest session started with
  goodAnswers,   \* number of 'good' or 'easy' answers of the latest session
  updCall,       \* << >>, or <<the one call of updateFlashcard and its outcome>>
  user,          \* useUser: the local user; totalHours in sixtieths of an hour
  usersRow,      \* the user's row of table users
  userCalls,     \* calls of updateUser awaiting the backend, oldest first
  userError,     \* useUser: whether an error has been recorded
  manualLogs,    \* rows of table manual_logs (their durations)
  watchSessions, \* rows of table watch_sessions
  episodes,      \* rows of table episodes of the one show
  shows,         \* useShows: the show's episodes in the local list
  showCalls,     \* number of calls of updateShow awaiting the backend
  showsError,    \* useShows: whether an error has been recorded
  selectedShow,  \* ContentLibrary state: << >> for null, else <<show>>
  selectedEpisode, \* ContentLibrary state: << >> for null, else <<episode id>>
  timers,        \* setTimeout callbacks not yet run: the 'shows' each closed over
  recorded,      \* the durations of the activities recorded so far
  watches,       \* the watches recorded so far: <<episode id, study mode>>
  deckRows,      \* rows of table flashcard_decks, in insertion order
  decks,         \* useFlashcardDecks: the local list
  calls,         \* calls of addDeck, addFlashcard and deleteFlashcard under way
  backendFailed, \* whether a backend call of those has returned an error
  requested,     \* the decks handleCreateFlashcard asked addDeck to create, each
                 \* with the serial number of the card it was creating
  ops            \* number of handler invocations so far

fnVars == <<fnCard, fnDifficulty, fnNow, fnDelta>>
chVars == <<chCard, chNow, chDelta, chCount, chHistory>>
selVars == <<selCards, selNow, selLimit, selDue, selNew, selQueue>>
dataVars == <<db, flashcards, error>>
sessionVars == <<currentView, reviewQueue, currentCard, showAnswer, sessionStats>>
uiVars == <<sessionVars, selectedDeck, editingCard, alertShown>>
historyVars == <<answers, sessionLength, goodAnswers>>
appVars == <<now, dataVars, uiVars, historyVars>>
userVars == <<user, usersRow, userCalls, userError, manualLogs, watchSessions,
              recorded>>
showVars == <<episodes, shows, showCalls, showsError, selectedShow,
              selectedEpisode, timers, watches>>
actVars == <<userVars, showVars>>
deckVars == <<deckRows, decks, calls, backendFailed, requested, ops>>
restVars == <<updCall, actVars, deckVars>>
pureVars == <<fnVars, chVars, selVars, restVars>>
vars == <<pureVars, appVars>>

(***************************************************************************)
(* SpecFn: one call of calculateNextReview on an arbitrary card            *)
(***************************************************************************)
FnEaseFactors == { EaseScale + EaseStep * k : k \in 0..MaxEaseSteps }
FnIntervals == -1..MaxInterval
FnRepetitions == 0..MaxReps
FnNows == { ClockStart + k : k \in 0..MaxFnNow }

FnCard(e, i, r) ==
  [ NewCard(1, 1, ClockStart) EXCEPT !.easeFactor = e,
                                     !.interval = Whole(i),
                                     !.repetitions = r ]

\* Flashcard: easeFactor >= 1.3, interval and repetitions non-negative integers
InTypedDomain(card) ==
  /\ card.easeFactor >= MINIMUM_EASE_FACTOR
  /\ IsWhole(card.interval) /\ card.interval.num >= 0
  /\ card.repetitions >= 0

ChIdle ==
  /\ chCard = NewCard(1, 1, ClockStart)
  /\ chNow = ClockStart
  /\ chDelta = << >>
  /\ chCount = 0
  /\ chHistory = << >>

FnIdle ==
  /\ fnCard = NewCard(1, 1, ClockStart)
  /\ fnDifficulty = "good"
  /\ fnNow = ClockStart
  /\ fnDelta = << >>

SelIdle ==
  /\ selCards = << >>
  /\ selNow = ClockStart
  /\ selLimit = 0
  /\ selDue = << >>
  /\ selNew = << >>
  /\ selQueue = << >>

\* the other specifications' call records, before any call
ActIdle ==
  /\ user = [totalHours |-> 0]
  /\ usersRow = [total_hours |-> 0]
  /\ userCalls = << >>
  /\ userError = FALSE
  /\ manualLogs = << >>
  /\ watchSessions = << >>
  /\ episodes = << >>
  /\ shows = << >>
  /\ showCalls = 0
  /\ showsError = FALSE
  /\ selectedShow = << >>
  /\ selectedEpisode = << >>
  /\ timers = << >>
  /\ recorded = << >>
  /\ watches = << >>

DecksIdle ==
  /\ deckRows = << >>
  /\ decks = << >>
  /\ calls = << >>
  /\ backendFailed = FALSE
  /\ requested = << >>
  /\ ops = 0

RestIdle == updCall = << >> /\ ActIdle /\ DecksIdle

\* FlashcardSystem as mounted: the deck list, no session, no dialog
UiIdle ==
  /\ currentView = "decks"
  /\ reviewQueue = << >>
  /\ currentCard = << >>
  /\ showAnswer = FALSE
  /\ sessionStats = [reviewed |-> 0, correct |-> 0, startTime |-> ClockStart]
  /\ selectedDeck = << >>
  /\ editingCard = << >>
  /\ alertShown = FALSE
  /\ answers = 0
  /\ sessionLength = 0
  /\ goodAnswers = 0

\* 2024-10-04: the application before any card exists
AppIdle ==
  /\ now = ClockStart
  /\ db = << >>
  /\ flashcards = << >>
  /\ error = FALSE
  /\ UiIdle
  /\ RestIdle

InitFn ==
  /\ fnCard \in { FnCard(e, i, r) :
                   e \in FnEaseFactors, i \in FnIntervals, r \in FnRepetitions }
  /\ fnDifficulty \in Difficulties
  /\ fnNow \in FnNows
  /\ fnDelta = << >>
  /\ ChIdle
  /\ SelIdle
  /\ AppIdle

CallCalculateNextReview ==
  /\ fnDelta = << >>
  /\ fnDelta' = << calculateNextReview(fnCard, fnDifficulty, fnNow) >>
  /\ UNCHANGED <<fnCard, fnDifficulty, fnNow, chVars, selVars, restVars, appVars>>

NextFn == CallCalculateNextReview

SpecFn == InitFn /\ [][NextFn]_vars

(***************************************************************************)
(* SpecChain: a newly created card and the reviews applied to it           *)
(***************************************************************************)
InitChain == ChIdle /\ FnIdle /\ SelIdle /\ AppIdle

\* one review event: the delta is computed and merged into the card
Review(difficulty, gap) ==
  /\ chCount < MaxReviews
  /\ chNow' = chNow + gap * DAY
  /\ chDelta' = << calculateNextReview(chCard, difficulty, chNow') >>
  /\ chCard' = Merge(chCard, chDelta'[1])
  /\ chCount' = chCount + 1
  /\ chHistory' = Append(chHistory, difficulty)
  /\ UNCHANGED <<fnVars, selVars, restVars, appVars>>

NextChain == \E difficulty \in Difficulties, gap \in 0..MaxGap : Review(difficulty, gap)

SpecChain == InitChain /\ [][NextChain]_vars

(***************************************************************************)
(* Card selection                                                          *)
(***************************************************************************)
NEW_CARD_LIMIT == 10

\* flashcards.filter(card => card.nextReview <= now)
getDueCards_strict(cards, at) == SelectSeq(cards, LAMBDA card : card.nextReview < at)
getDueCards(cards, at) == SelectSeq(cards, LAMBDA card : card.nextReview <= at)

\* flashcards.filter(card => card.repetitions === 0).slice(0, limit)
getNewCards_sliceFirst(cards, limit) ==
  LET end == IF limit < 0 THEN Max(Len(cards) + limit, 0)
             ELSE IF Len(cards) < limit THEN Len(cards) ELSE limit
  IN  SelectSeq(SubSeq(cards, 1, end), LAMBDA card : card.repetitions = 0)
getNewCards(cards, limit) ==
  LET fresh == SelectSeq(cards, LAMBDA card : card.repetitions = 0)
      end == IF limit < 0 THEN Max(Len(fresh) + limit, 0)
             ELSE IF Len(fresh) < limit THEN Len(fresh) ELSE limit
  IN  SubSeq(fresh, 1, end)

\* flashcards.filter(card => card.deckId === deck.id)
deckFlashcards(cards, deckId) == SelectSeq(cards, LAMBDA card : card.deckId = deckId)

\* [...dueCards, ...newCards]
sessionQueue_newFirst(cards, at) ==
  getNewCards(cards, NEW_CARD_LIMIT) \o getDueCards(cards, at)
sessionQueue(cards, at) ==
  getDueCards(cards, at) \o getNewCards(cards, NEW_CARD_LIMIT)

(***************************************************************************)
(* SpecSel: one call of getDueCards and of getNewCards on arbitrary cards  *)
(***************************************************************************)
SelNextReviews == { ClockStart - 1, ClockStart, ClockStart + 1 }
SelRepetitions == 0..1

SelCard(id, nextReview, repetitions) ==
  [ NewCard(id, 1, nextReview) EXCEPT !.repetitions = repetitions ]

\* the collections of n cards, the card at position k having id k
SelCollections(n) ==
  { [ k \in 1..n |-> SelCard(k, f[k][1], f[k][2]) ] :
      f \in [ 1..n -> SelNextReviews \X SelRepetitions ] }

InitSel ==
  /\ \E n \in 0..MaxSelCards : selCards \in SelCollections(n)
  /\ selNow = ClockStart
  /\ selLimit \in 0..MaxLimit
  /\ selDue = << >>
  /\ selNew = << >>
  /\ selQueue = << >>
  /\ FnIdle
  /\ ChIdle
  /\ AppIdle

CallGetDueCards ==
  /\ selDue = << >>
  /\ selDue' = << getDueCards(selCards, selNow) >>
  /\ UNCHANGED <<selCards, selNow, selLimit, selNew, selQueue, fnVars, chVars,
                 restVars, appVars>>

CallGetNewCards ==
  /\ selNew = << >>
  /\ selNew' = << getNewCards(selCards, selLimit) >>
  /\ UNCHANGED <<selCards, selNow, selLimit, selDue, selQueue, fnVars, chVars,
                 restVars, appVars>>

\* the queue startReview builds for the deck holding selCards
CallSessionQueue ==
  /\ selQueue = << >>
  /\ selQueue' = << sessionQueue(deckFlashcards(selCards, 1), selNow) >>
  /\ UNCHANGED <<selCards, selNow, selLimit, selDue, selNew, fnVars, chVars,
                 restVars, appVars>>

NextSel == CallGetDueCards \/ CallGetNewCards \/ CallSessionQueue

SpecSel == InitSel /\ [][NextSel]_vars

(***************************************************************************)
(* SpecScenario: the queue of a deck of twelve cards                       *)
(***************************************************************************)
\* twelve cards in list order: "due" is reviewed and due, "new" has
\* repetitions 0, "later" is reviewed and not yet due
ScenarioKinds ==
  << "due", "new", "later", "new", "due", "later",
     "new", "later", "new", "due", "later", "new" >>

\* the same list started at position 1 + shift
Rotated(kinds, shift) ==
  [ k \in 1..Len(kinds) |-> kinds[((k - 1 + shift) % Len(kinds)) + 1] ]

\* a card with repetitions 0 was either never reviewed (next_review is its
\* creation time, DEFAULT now()) or was last answered 'again' (next_review is
\* one day after that review)
ScenarioNextReviews(kind) ==
  IF kind = "due" THEN { ClockStart - DAY }
  ELSE IF kind = "later" THEN { ClockStart + DAY }
  ELSE { ClockStart - DAY, ClockStart + DAY }

ScenarioCollections(kinds) ==
  { [ k \in 1..Len(kinds) |->
        SelCard(k, f[k], IF kinds[k] = "new" THEN 0 ELSE 1) ] :
      f \in { g \in [ 1..Len(kinds) -> { ClockStart - DAY, ClockStart + DAY } ] :
                \A k \in 1..Len(kinds) : g[k] \in ScenarioNextReviews(kinds[k]) } }

InitScenario ==
  /\ \E shift \in 0..(Len(ScenarioKinds) - 1) :
       selCards \in ScenarioCollections(Rotated(ScenarioKinds, shift))
  /\ selNow = ClockStart
  /\ selLimit = NEW_CARD_LIMIT
  /\ selDue = << >>
  /\ selNew = << >>
  /\ selQueue = << >>
  /\ FnIdle
  /\ ChIdle
  /\ AppIdle

SpecScenario == InitScenario /\ [][NextSel]_vars

(***************************************************************************)
(* Spec: the flashcards of one user and the review session                 *)
(***************************************************************************)
DeckIds == 1..MaxDecks

\* prev.map(card => card.id === flashcardId ? { ...card, ...updates } : card)
MapUpdate_allCards(cards, flashcardId, updates) ==
  [ k \in 1..Len(cards) |-> Merge(cards[k], updates) ]
MapUpdate(cards, flashcardId, updates) ==
  [ k \in 1..Len(cards) |->
      IF cards[k].id = flashcardId THEN Merge(cards[k], updates) ELSE cards[k] ]

\* the columns updateFlashcard sends, under the names of the Flashcard fields
SentColumns ==
  {"front", "lastReviewed", "nextReview", "easeFactor", "interval",
   "repetitions", "difficulty"}

\* the row update of updateFlashcard: an undefined value leaves its column
\* alone, and a timestamp is sent only when truthy
RowUpdate(row, updates) ==
  [ f \in DOMAIN row |->
      IF f \notin SentColumns \/ f \notin DOMAIN updates THEN row[f]
      ELSE IF f \in {"lastReviewed", "nextReview"} /\ updates[f] = 0 THEN row[f]
      ELSE updates[f] ]

\* column 'interval integer' holds whole numbers only
RowAccepted(updates) == "interval" \in DOMAIN updates => IsWhole(updates.interval)

\* reviewQueue.slice(1)
answeredQueue_dropCard(queue) ==
  SelectSeq(queue, LAMBDA card : card.id # queue[1].id)
answeredQueue(queue) == Tail(queue)

\* difficulty === 'good' || difficulty === 'easy'
isCorrect_notAgain(difficulty) == difficulty # "again"
isCorrect(difficulty) == difficulty \in {"good", "easy"}

\* the view handleAnswer leaves: 'decks' once the remaining queue is empty
answeredView_stay(queue) == "review"
answeredView(queue) == IF Len(queue) > 0 THEN "review" ELSE "decks"

InitApp == AppIdle /\ FnIdle /\ ChIdle /\ SelIdle

\* useFlashcards.addFlashcard: insert with the column defaults, then refetch.
\* Cards are created from the create-card form or from another page, never
\* while the review view is shown.
addFlashcard(deckId, insertOk, fetchOk) ==
  /\ ~alertShown
  /\ currentView # "review"
  /\ Len(db) < MaxCards
  /\ IF insertOk
       THEN /\ db' = Append(db, NewCard(Len(db) + 1, deckId, now))
            /\ flashcards' = IF fetchOk THEN db' ELSE flashcards
            /\ error' = IF fetchOk THEN error ELSE TRUE
       ELSE /\ error' = TRUE
            /\ UNCHANGED <<db, flashcards>>
  /\ UNCHANGED <<now, uiVars, historyVars, pureVars>>

\* time passes
Tick ==
  /\ now < ClockStart + MaxDays * DAY
  /\ now' = now + DAY
  /\ UNCHANGED <<dataVars, uiVars, historyVars, pureVars>>

\* useFlashcards.updateFlashcard
updateFlashcard_optimistic(flashcardId, updates, backendOk) ==
  /\ flashcards' = MapUpdate(flashcards, flashcardId, updates)
  /\ IF backendOk /\ RowAccepted(updates)
       THEN /\ db' = [ k \in 1..Len(db) |->
                        IF db[k].id = flashcardId THEN RowUpdate(db[k], updates)
                        ELSE db[k] ]
            /\ error' = error
       ELSE /\ error' = TRUE
            /\ UNCHANGED db
updateFlashcard(flashcardId, updates, backendOk) ==
  IF backendOk /\ RowAccepted(updates)
    THEN /\ db' = [ k \in 1..Len(db) |->
                     IF db[k].id = flashcardId THEN RowUpdate(db[k], updates)
                     ELSE db[k] ]
         /\ flashcards' = MapUpdate(flashcards, flashcardId, updates)
         /\ error' = error
    ELSE /\ error' = TRUE
         /\ UNCHANGED <<db, flashcards>>

\* FlashcardSystem.startReview
startReview_noEmptyCheck(deckId) ==
  /\ ~alertShown
  /\ currentView = "decks"
  /\ LET queue == sessionQueue(deckFlashcards(flashcards, deckId), now)
     IN  /\ reviewQueue' = queue
         /\ currentCard' = IF Len(queue) = 0 THEN << >> ELSE << queue[1] >>
         /\ showAnswer' = FALSE
         /\ sessionStats' = [reviewed |-> 0, correct |-> 0, startTime |-> now]
         /\ currentView' = "review"
         /\ sessionLength' = Len(queue)
         /\ goodAnswers' = 0
         /\ UNCHANGED alertShown
  /\ UNCHANGED <<now, dataVars, selectedDeck, editingCard, answers, pureVars>>
startReview(deckId) ==
  /\ ~alertShown
  /\ currentView = "decks"
  /\ LET queue == sessionQueue(deckFlashcards(flashcards, deckId), now)
     IN  IF Len(queue) = 0
           THEN /\ alertShown' = TRUE
                /\ UNCHANGED <<sessionVars, sessionLength, goodAnswers>>
           ELSE /\ reviewQueue' = queue
                /\ currentCard' = << queue[1] >>
                /\ showAnswer' = FALSE
                /\ sessionStats' = [reviewed |-> 0, correct |-> 0, startTime |-> now]
                /\ currentView' = "review"
                /\ sessionLength' = Len(queue)
                /\ goodAnswers' = 0
                /\ UNCHANGED alertShown
  /\ UNCHANGED <<now, dataVars, selectedDeck, editingCard, answers, pureVars>>

\* the 'Show Answer' button of the review view
clickShowAnswer ==
  /\ ~alertShown
  /\ currentView = "review"
  /\ Len(reviewQueue) > 0
  /\ currentCard # << >>
  /\ ~showAnswer
  /\ showAnswer' = TRUE
  /\ UNCHANGED <<now, dataVars, currentView, reviewQueue, currentCard,
                 sessionStats, selectedDeck, editingCard, alertShown, historyVars,
                 pureVars>>

\* FlashcardSystem.handleAnswer, with the updateFlashcard it calls
handleAnswer(difficulty, backendOk) ==
  /\ ~alertShown
  /\ currentView = "review"
  /\ Len(reviewQueue) > 0
  /\ showAnswer
  /\ currentCard # << >>
  /\ answers < MaxAnswers
  /\ LET updates == calculateNextReview(currentCard[1], difficulty, now)
         nextQueue == answeredQueue(reviewQueue)
     IN  /\ updateFlashcard(currentCard[1].id, updates, backendOk)
         /\ sessionStats' =
              [ sessionStats EXCEPT !.reviewed = @ + 1,
                                    !.correct = @ + (IF isCorrect(difficulty) THEN 1 ELSE 0) ]
         /\ reviewQueue' = nextQueue
         /\ IF Len(nextQueue) > 0
              THEN /\ currentCard' = << nextQueue[1] >>
                   /\ showAnswer' = FALSE
              ELSE /\ currentCard' = << >>
                   /\ UNCHANGED showAnswer
         /\ currentView' = answeredView(nextQueue)
  /\ answers' = answers + 1
  /\ goodAnswers' = goodAnswers + (IF difficulty \in {"good", "easy"} THEN 1 ELSE 0)
  /\ UNCHANGED sessionLength
  /\ UNCHANGED <<now, selectedDeck, editingCard, alertShown, pureVars>>

\* the 'Browse' button of a deck
browseDeck(deckId) ==
  /\ ~alertShown
  /\ currentView = "decks"
  /\ selectedDeck' = << deckId >>
  /\ currentView' = "cards"
  /\ UNCHANGED <<now, dataVars, reviewQueue, currentCard, showAnswer,
                 sessionStats, editingCard, alertShown, historyVars, pureVars>>

\* the 'Back to Decks' button of the cards view
backToDecks ==
  /\ ~alertShown
  /\ currentView = "cards"
  /\ selectedDeck' = << >>
  /\ currentView' = "decks"
  /\ UNCHANGED <<now, dataVars, reviewQueue, currentCard, showAnswer,
                 sessionStats, editingCard, alertShown, historyVars, pureVars>>

\* FlashcardSystem.handleEditCard, on the k-th card shown for the selected deck
handleEditCard(k) ==
  /\ ~alertShown
  /\ currentView = "cards"
  /\ selectedDeck # << >>
  /\ LET deckCards == deckFlashcards(flashcards, selectedDeck[1])
     IN  /\ k \in 1..Len(deckCards)
         /\ editingCard' = << deckCards[k] >>
  /\ currentView' = "create-card"
  /\ UNCHANGED <<now, dataVars, reviewQueue, currentCard, showAnswer,
                 sessionStats, selectedDeck, alertShown, historyVars, pureVars>>

\* FlashcardSystem.handleUpdateCard, the form holding 'front'
handleUpdateCard(front, backendOk) ==
  /\ ~alertShown
  /\ currentView = "create-card"
  /\ IF front = "" \/ editingCard = << >>
       THEN UNCHANGED <<dataVars, currentView, editingCard>>
       ELSE /\ updateFlashcard(editingCard[1].id, [front |-> front], backendOk)
            /\ editingCard' = << >>
            /\ currentView' = "cards"
  /\ UNCHANGED <<now, reviewQueue, currentCard, showAnswer, sessionStats,
                 selectedDeck, alertShown, historyVars, pureVars>>

\* FlashcardSystem.cancelEditCard
cancelEditCard ==
  /\ ~alertShown
  /\ currentView = "create-card"
  /\ editingCard' = << >>
  /\ currentView' = "cards"
  /\ UNCHANGED <<now, dataVars, reviewQueue, currentCard, showAnswer,
                 sessionStats, selectedDeck, alertShown, historyVars, pureVars>>

\* the user closes the dialog and alert() returns; until then the page is blocked
dismissAlert ==
  /\ alertShown
  /\ alertShown' = FALSE
  /\ UNCHANGED <<now, dataVars, sessionVars, selectedDeck, editingCard, historyVars,
                 pureVars>>

Next ==
  \/ Tick
  \/ dismissAlert
  \/ \E deckId \in DeckIds, insertOk \in BOOLEAN, fetchOk \in BOOLEAN :
       addFlashcard(deckId, insertOk, fetchOk)
  \/ \E deckId \in DeckIds : startReview(deckId)
  \/ clickShowAnswer
  \/ \E difficulty \in Difficulties, backendOk \in BOOLEAN :
       handleAnswer(difficulty, backendOk)
  \/ \E deckId \in DeckIds : browseDeck(deckId)
  \/ backToDecks
  \/ \E k \in 1..MaxCards : handleEditCard(k)
  \/ \E front \in {"", "edited"}, backendOk \in BOOLEAN :
       handleUpdateCard(front, backendOk)
  \/ cancelEditCard

Spec == InitApp /\ [][Next]_vars

(***************************************************************************)
(* SpecUpdate: one call of updateFlashcard on a stored list of cards       *)
(***************************************************************************)
\* a card as created, and as one and two 'good' reviews leave it
UpdCardStates(id) ==
  LET created == NewCard(id, 1, ClockStart)
      once == Merge(created, calculateNextReview(created, "good", ClockStart))
      twice == Merge(once, calculateNextReview(once, "good", ClockStart + DAY))
  IN  { created, once, twice }

UpdCollections(n) ==
  { cards \in [ 1..n -> UNION { UpdCardStates(k) : k \in 1..n } ] :
      \A k \in 1..n : cards[k].id = k }

InitUpdate ==
  /\ now = ClockStart + 7 * DAY
  /\ \E n \in 1..MaxUpdCards : db \in UpdCollections(n)
  /\ flashcards = db
  /\ error \in BOOLEAN
  /\ updCall = << >>
  /\ ActIdle
  /\ DecksIdle
  /\ UiIdle
  /\ FnIdle
  /\ ChIdle
  /\ SelIdle

\* the call, with what the backend answered
callUpdateFlashcard(flashcardId, updates, backendOk) ==
  /\ updCall = << >>
  /\ updateFlashcard(flashcardId, updates, backendOk)
  /\ updCall' = << [ flashcardId |-> flashcardId,
                     updates     |-> updates,
                     accepted    |-> backendOk /\ RowAccepted(updates) ] >>
  /\ UNCHANGED <<now, uiVars, historyVars, fnVars, chVars, selVars, actVars,
                 deckVars>>

\* the call handleAnswer makes for the k-th card of the list
answerUpdate(k, difficulty, backendOk) ==
  /\ k \in 1..Len(flashcards)
  /\ callUpdateFlashcard(flashcards[k].id,
                         calculateNextReview(flashcards[k], difficulty, now),
                         backendOk)

\* the call handleUpdateCard makes for the k-th card of the list
editUpdate(k, backendOk) ==
  /\ k \in 1..Len(flashcards)
  /\ callUpdateFlashcard(flashcards[k].id, [front |-> "edited"], backendOk)

NextUpdate ==
  \/ \E k \in 1..MaxUpdCards, difficulty \in Difficulties, backendOk \in BOOLEAN :
       answerUpdate(k, difficulty, backendOk)
  \/ \E k \in 1..MaxUpdCards, backendOk \in BOOLEAN : editUpdate(k, backendOk)

SpecUpdate == InitUpdate /\ [][NextUpdate]_vars

(***************************************************************************)
(* SpecActivity: manual logs, watched episodes, the user's hours and the   *)
(* watch counts of one show                                                *)
(***************************************************************************)
\* durations in minutes; hours are counted in sixtieths, so that
\* duration / 60 hours is 'duration' sixtieths
ManualDurations == { 30, 90 }
EpisodeDuration == 24
StudyModes == { "passive", "active" }
EpisodeIds == 1..MaxEpisodes

\* a row of table episodes as inserted: the count columns DEFAULT 0
EpisodeRow ==
  [ watched |-> FALSE, watch_count |-> 0,
    passive_watch_count |-> 0, active_watch_count |-> 0 ]

\* fetchShows: the Episode made from a row
FetchedEpisode(row) ==
  [ watched           |-> row.watched,
    watchCount        |-> row.watch_count,
    passiveWatchCount |-> row.passive_watch_count,
    activeWatchCount  |-> row.active_watch_count ]

FetchedShow(rows) == [ e \in DOMAIN rows |-> FetchedEpisode(rows[e]) ]

\* the episode handleStudyModeSelect puts in place of the selected one
WatchedEpisode(ep, studyMode) ==
  [ ep EXCEPT !.watchCount = @ + 1,
              !.passiveWatchCount = IF studyMode = "passive" THEN @ + 1 ELSE @,
              !.activeWatchCount = IF studyMode = "active" THEN @ + 1 ELSE @,
              !.watched = TRUE ]

InitActivity ==
  /\ user = [totalHours |-> 0]
  /\ usersRow = [total_hours |-> 0]
  /\ userCalls = << >>
  /\ userError = FALSE
  /\ manualLogs = << >>
  /\ watchSessions = << >>
  /\ episodes = [ e \in EpisodeIds |-> EpisodeRow ]
  /\ shows = FetchedShow(episodes)
  /\ showCalls = 0
  /\ showsError = FALSE
  /\ selectedShow = << >>
  /\ selectedEpisode = << >>
  /\ timers = << >>
  /\ recorded = << >>
  /\ watches = << >>
  /\ updCall = << >>
  /\ DecksIdle
  /\ now = ClockStart /\ db = << >> /\ flashcards = << >> /\ error = FALSE
  /\ UiIdle
  /\ FnIdle
  /\ ChIdle
  /\ SelIdle

ActivityFrame == UNCHANGED <<appVars, fnVars, chVars, selVars, updCall, deckVars>>

\* App.handleAddManualLog: addManualLog, then updateUser with the hours added
\* to the totalHours of the user this render holds
handleAddManualLog(duration, insertOk) ==
  /\ Len(recorded) < MaxActivities
  /\ manualLogs' = IF insertOk THEN Append(manualLogs, duration) ELSE manualLogs
  /\ userCalls' = Append(userCalls, [totalHours |-> user.totalHours + duration])
  /\ recorded' = Append(recorded, duration)
  /\ UNCHANGED <<user, usersRow, userError, watchSessions, showVars>>
  /\ ActivityFrame

\* useUser.updateUser, from the backend's answer on
updateUserReturns(backendOk) ==
  /\ Len(userCalls) > 0
  /\ userCalls' = Tail(userCalls)
  /\ IF backendOk
       THEN /\ usersRow' = [total_hours |-> Head(userCalls).totalHours]
            /\ user' = Merge(user, Head(userCalls))
            /\ UNCHANGED userError
       ELSE /\ userError' = TRUE
            /\ UNCHANGED <<user, usersRow>>
  /\ UNCHANGED <<manualLogs, watchSessions, recorded, showVars>>
  /\ ActivityFrame

\* ContentLibrary: a show card is clicked
selectShow ==
  /\ selectedShow = << >>
  /\ selectedShow' = << shows >>
  /\ UNCHANGED <<userVars, episodes, shows, showCalls, showsError,
                 selectedEpisode, timers, watches>>
  /\ ActivityFrame

\* ContentLibrary: back from the show to the list
closeShow ==
  /\ selectedShow # << >>
  /\ selectedEpisode = << >>
  /\ selectedShow' = << >>
  /\ UNCHANGED <<userVars, episodes, shows, showCalls, showsError,
                 selectedEpisode, timers, watches>>
  /\ ActivityFrame

\* ContentLibrary: an episode of the selected show is clicked
selectEpisode(e) ==
  /\ selectedShow # << >>
  /\ selectedEpisode = << >>
  /\ selectedEpisode' = << e >>
  /\ UNCHANGED <<userVars, episodes, shows, showCalls, showsError,
                 selectedShow, timers, watches>>
  /\ ActivityFrame

\* ContentLibrary: the study mode dialog is cancelled
cancelStudyMode ==
  /\ selectedEpisode # << >>
  /\ selectedEpisode' = << >>
  /\ UNCHANGED <<userVars, episodes, shows, showCalls, showsError,
                 selectedShow, timers, watches>>
  /\ ActivityFrame

\* ContentLibrary.handleStudyModeSelect with App.handleSelectContent, which
\* it calls through onSelectContent
handleStudyModeSelect(studyMode, insertOk) ==
  /\ selectedShow # << >>
  /\ selectedEpisode # << >>
  /\ Len(recorded) < MaxActivities
  /\ LET updatedSeasons ==
           [ e \in DOMAIN selectedShow[1] |->
               IF e = selectedEpisode[1]
                 THEN WatchedEpisode(selectedShow[1][e], studyMode)
                 ELSE selectedShow[1][e] ]
     IN  selectedShow' = << updatedSeasons >>
  /\ showCalls' = showCalls + 1
  /\ watchSessions' =
       IF insertOk
         THEN Append(watchSessions,
                     [episode |-> selectedEpisode[1], studyMode |-> studyMode])
         ELSE watchSessions
  /\ userCalls' =
       Append(userCalls, [totalHours |-> user.totalHours + EpisodeDuration])
  /\ timers' = Append(timers, shows)
  /\ selectedEpisode' = << >>
  /\ recorded' = Append(recorded, EpisodeDuration)
  /\ watches' = Append(watches, << selectedEpisode[1], studyMode >>)
  /\ UNCHANGED <<user, usersRow, userError, manualLogs, episodes, shows,
                 showsError>>
  /\ ActivityFrame

\* useShows.updateShow called with seasons, from the backend's answer on: the
\* columns of table shows are updated, then fetchShows reads the rows back
updateShowReturns(backendOk, fetchOk) ==
  /\ showCalls > 0
  /\ showCalls' = showCalls - 1
  /\ IF backendOk /\ fetchOk
       THEN shows' = FetchedShow(episodes) /\ UNCHANGED showsError
       ELSE showsError' = TRUE /\ UNCHANGED shows
  /\ UNCHANGED <<userVars, episodes, selectedShow, selectedEpisode, timers,
                 watches>>
  /\ ActivityFrame

\* the setTimeout callback of handleStudyModeSelect
timerFires ==
  /\ Len(timers) > 0
  /\ timers' = Tail(timers)
  /\ selectedShow' = << Head(timers) >>
  /\ UNCHANGED <<userVars, episodes, shows, showCalls, showsError,
                 selectedEpisode, watches>>
  /\ ActivityFrame

NextActivity ==
  \/ \E duration \in ManualDurations, insertOk \in BOOLEAN :
       handleAddManualLog(duration, insertOk)
  \/ \E backendOk \in BOOLEAN : updateUserReturns(backendOk)
  \/ selectShow
  \/ closeShow
  \/ \E e \in EpisodeIds : selectEpisode(e)
  \/ cancelStudyMode
  \/ \E studyMode \in StudyModes, insertOk \in BOOLEAN :
       handleStudyModeSelect(studyMode, insertOk)
  \/ \E backendOk \in BOOLEAN, fetchOk \in BOOLEAN :
       updateShowReturns(backendOk, fetchOk)
  \/ timerFires

SpecActivity == InitActivity /\ [][NextActivity]_vars

(***************************************************************************)
(* SpecDecks: decks, their card_count, and the cards added and deleted     *)
(***************************************************************************)
\* gen_random_uuid(): the id of the n-th row inserted into flashcard_decks
DeckUuids == << "uuid-1", "uuid-2", "uuid-3", "uuid-4", "uuid-5", "uuid-6" >>
DeckNames == { "Anime", "Drama" }

\* fetchDecks: the FlashcardDeck made from a row
FetchedDeck(row) == [ id |-> row.id, name |-> row.name, cardCount |-> row.card_count ]
FetchedDecks(rows) == [ k \in 1..Len(rows) |-> FetchedDeck(rows[k]) ]

RemoveAt(seq, i) == SubSeq(seq, 1, i - 1) \o SubSeq(seq, i + 1, Len(seq))

\* column deck_id uuid REFERENCES flashcard_decks(id)
DeckIdAccepted(deckId) == \E k \in 1..Len(deckRows) : deckRows[k].id = deckId

\* increment_deck_card_count and decrement_deck_card_count
increment_deck_card_count(rows, deckId) ==
  [ k \in 1..Len(rows) |->
      IF rows[k].id = deckId
        THEN [ rows[k] EXCEPT !.card_count = @ + 1 ] ELSE rows[k] ]
decrement_deck_card_count(rows, deckId) ==
  [ k \in 1..Len(rows) |->
      IF rows[k].id = deckId
        THEN [ rows[k] EXCEPT !.card_count = Max(@ - 1, 0) ] ELSE rows[k] ]

\* one deck 'Anime' without cards, loaded into the local list
InitDecks ==
  /\ deckRows = << [ id |-> DeckUuids[1], name |-> "Anime", card_count |-> 0 ] >>
  /\ decks = FetchedDecks(deckRows)
  /\ calls = << >>
  /\ backendFailed = FALSE
  /\ requested = << >>
  /\ ops = 0
  /\ now = ClockStart /\ db = << >> /\ flashcards = << >> /\ error = FALSE
  /\ updCall = << >>
  /\ ActIdle
  /\ UiIdle
  /\ FnIdle
  /\ ChIdle
  /\ SelIdle

DecksFrame ==
  UNCHANGED <<now, uiVars, historyVars, fnVars, chVars, selVars, updCall, actVars>>

Call(op, deckId, flashcardId, pc) ==
  [ op |-> op, serial |-> ops + 1, deckId |-> deckId,
    flashcardId |-> flashcardId, pc |-> pc ]

\* App.handleCreateFlashcard: deckId is the id of a listed deck (card form of
\* the deck) or a deck name (from the watch menu)
handleCreateFlashcard(deckId) ==
  /\ ops < MaxOps
  /\ deckId \in DeckNames \/ \E k \in 1..Len(decks) : decks[k].id = deckId
  /\ LET known == \E k \in 1..Len(decks) : decks[k].id = deckId
         named == { k \in 1..Len(decks) : decks[k].name = deckId }
         existingDeck == decks[CHOOSE k \in named : \A j \in named : k <= j]
         creates == ~known /\ named = {}
         resolved == IF ~known /\ named # {} THEN existingDeck.id ELSE deckId
         started == IF creates THEN << Call("addDeck", deckId, 0, "insert") >>
                    ELSE << >>
     IN  /\ Len(calls) + Len(started) < MaxCalls
         /\ calls' = calls \o started
                        \o << Call("addFlashcard", resolved, 0, "insert") >>
         /\ requested' =
              IF creates
                THEN Append(requested, [name |-> deckId, serial |-> ops + 1])
                ELSE requested
  /\ ops' = ops + 1
  /\ UNCHANGED <<deckRows, decks, backendFailed, dataVars>>
  /\ DecksFrame

\* useFlashcardDecks.addDeck, from the answer to its insert on
addDeckReturns(i, insertOk, fetchOk) ==
  /\ i \in 1..Len(calls)
  /\ calls[i].op = "addDeck"
  /\ Len(deckRows) < Len(DeckUuids)
  /\ calls' = RemoveAt(calls, i)
  /\ deckRows' =
       IF insertOk
         THEN Append(deckRows, [ id |-> DeckUuids[Len(deckRows) + 1],
                                 name |-> calls[i].deckId, card_count |-> 0 ])
         ELSE deckRows
  /\ decks' = IF insertOk /\ fetchOk THEN FetchedDecks(deckRows') ELSE decks
  /\ backendFailed' = (backendFailed \/ ~insertOk \/ ~fetchOk)
  /\ UNCHANGED <<requested, ops, dataVars>>
  /\ DecksFrame

\* useFlashcards.addFlashcard: the insert
addFlashcardInserts(i, backendOk) ==
  /\ i \in 1..Len(calls)
  /\ calls[i].op = "addFlashcard" /\ calls[i].pc = "insert"
  /\ IF backendOk /\ DeckIdAccepted(calls[i].deckId)
       THEN /\ db' = Append(db, NewCard(calls[i].serial, calls[i].deckId, now))
            /\ calls' = [ calls EXCEPT ![i].pc = "increment" ]
            /\ UNCHANGED error
       ELSE /\ error' = TRUE
            /\ calls' = RemoveAt(calls, i)
            /\ UNCHANGED db
  /\ backendFailed' = (backendFailed \/ ~backendOk)
  /\ UNCHANGED <<deckRows, decks, requested, ops, flashcards>>
  /\ DecksFrame

\* useFlashcards.addFlashcard: the rpc; its error is only logged
addFlashcardIncrements(i, backendOk) ==
  /\ i \in 1..Len(calls)
  /\ calls[i].op = "addFlashcard" /\ calls[i].pc = "increment"
  /\ deckRows' = IF backendOk
                   THEN increment_deck_card_count(deckRows, calls[i].deckId)
                   ELSE deckRows
  /\ calls' = [ calls EXCEPT ![i].pc = "fetch" ]
  /\ backendFailed' = (backendFailed \/ ~backendOk)
  /\ UNCHANGED <<decks, requested, ops, dataVars>>
  /\ DecksFrame

\* useFlashcards.addFlashcard: fetchFlashcards
addFlashcardFetches(i, backendOk) ==
  /\ i \in 1..Len(calls)
  /\ calls[i].op = "addFlashcard" /\ calls[i].pc = "fetch"
  /\ flashcards' = IF backendOk THEN db ELSE flashcards
  /\ error' = (error \/ ~backendOk)
  /\ calls' = RemoveAt(calls, i)
  /\ backendFailed' = (backendFailed \/ ~backendOk)
  /\ UNCHANGED <<deckRows, decks, requested, ops, db>>
  /\ DecksFrame

\* useFlashcards.deleteFlashcard called for the k-th card of the local list:
\* cardToDelete is looked up in the list this render holds
deleteFlashcard(k) ==
  /\ ops < MaxOps
  /\ Len(calls) < MaxCalls
  /\ k \in 1..Len(flashcards)
  /\ calls' = Append(calls, Call("deleteFlashcard", flashcards[k].deckId,
                                 flashcards[k].id, "delete"))
  /\ ops' = ops + 1
  /\ UNCHANGED <<deckRows, decks, backendFailed, requested, dataVars>>
  /\ DecksFrame

\* useFlashcards.deleteFlashcard: the delete; deleting no row is no error
deleteFlashcardDeletes(i, backendOk) ==
  /\ i \in 1..Len(calls)
  /\ calls[i].op = "deleteFlashcard" /\ calls[i].pc = "delete"
  /\ IF backendOk
       THEN /\ db' = SelectSeq(db, LAMBDA card : card.id # calls[i].flashcardId)
            /\ calls' = [ calls EXCEPT ![i].pc = "decrement" ]
            /\ UNCHANGED error
       ELSE /\ error' = TRUE
            /\ calls' = RemoveAt(calls, i)
            /\ UNCHANGED db
  /\ backendFailed' = (backendFailed \/ ~backendOk)
  /\ UNCHANGED <<deckRows, decks, requested, ops, flashcards>>
  /\ DecksFrame

\* useFlashcards.deleteFlashcard: the rpc for cardToDelete's deck (its error
\* is only logged), then the card is filtered out of the local list
deleteFlashcardDecrements(i, backendOk) ==
  /\ i \in 1..Len(calls)
  /\ calls[i].op = "deleteFlashcard" /\ calls[i].pc = "decrement"
  /\ deckRows' = IF backendOk
                   THEN decrement_deck_card_count(deckRows, calls[i].deckId)
                   ELSE deckRows
  /\ flashcards' =
       SelectSeq(flashcards, LAMBDA card : card.id # calls[i].flashcardId)
  /\ calls' = RemoveAt(calls, i)
  /\ backendFailed' = (backendFailed \/ ~backendOk)
  /\ UNCHANGED <<decks, requested, ops, db, error>>
  /\ DecksFrame

NextDecks ==
  \/ \E deckId \in DeckNames \cup { DeckUuids[k] : k \in 1..Len(DeckUuids) } :
       handleCreateFlashcard(deckId)
  \/ \E i \in 1..MaxCalls, insertOk \in BOOLEAN, fetchOk \in BOOLEAN :
       addDeckReturns(i, insertOk, fetchOk)
  \/ \E i \in 1..MaxCalls, backendOk \in BOOLEAN : addFlashcardInserts(i, backendOk)
  \/ \E i \in 1..MaxCalls, backendOk \in BOOLEAN : addFlashcardIncrements(i, backendOk)
  \/ \E i \in 1..MaxCalls, backendOk \in BOOLEAN : addFlashcardFetches(i, backendOk)
  \/ \E k \in 1..MaxOps : deleteFlashcard(k)
  \/ \E i \in 1..MaxCalls, backendOk \in BOOLEAN : deleteFlashcardDeletes(i, backendOk)
  \/ \E i \in 1..MaxCalls, backendOk \in BOOLEAN :
       deleteFlashcardDecrements(i, backendOk)

SpecDecks == InitDecks /\ [][NextDecks]_vars

(***************************************************************************)
(* Properties of one call (SpecFn)                                         *)
(***************************************************************************)
FnReturned == fnDelta # << >>
FnResult == fnDelta[1]

\* C1: for every card of the typed input domain and every difficulty the
\* returned easeFactor is at least 1.3 and the returned interval at least 1.
C1_FloorsOnTypedDomain ==
  (FnReturned /\ InTypedDomain(fnCard)) =>
    /\ FnResult.easeFactor >= MINIMUM_EASE_FACTOR
    /\ FracGeq(FnResult.interval, Whole(MINIMUM_INTERVAL))

\* C4: 'hard' returns interval max(1, round(i * 1.2)), repetitions r + 1 and
\* easeFactor max(1.3, e - 0.15).
C4_HardRow ==
  (FnReturned /\ fnDifficulty = "hard") =>
    /\ FnResult.interval =
         Whole(Max(1, MathRound(fnCard.interval.num * 6, fnCard.interval.den * 5)))
    /\ FnResult.repetitions = fnCard.repetitions + 1
    /\ FnResult.easeFactor = Max(130, fnCard.easeFactor - 15)

\* C5: 'again' returns repetitions 0, interval 1 and easeFactor
\* max(1.3, e - 0.8) whatever the prior state; the card (2.5, 15, 3) yields
\* (interval 1, repetitions 0, easeFactor 1.7).
C5_AgainRow ==
  (FnReturned /\ fnDifficulty = "again") =>
    /\ FnResult.repetitions = 0
    /\ FnResult.interval = Whole(1)
    /\ FnResult.easeFactor = Max(130, fnCard.easeFactor - 80)
    /\ (fnCard = FnCard(250, 15, 3) => FnResult.easeFactor = 170)

C5_Witness ==
  /\ FnReturned /\ fnDifficulty = "again"
  /\ fnCard = FnCard(250, 15, 3)
  /\ FnResult.interval = Whole(1) /\ FnResult.repetitions = 0

\* C6: 'good' returns interval 1 for repetitions 0, 6 for repetitions 1 and
\* round(i * e) from repetitions 2 on; repetitions becomes r + 1 and the
\* easeFactor is unchanged.
C6_GoodRows ==
  (FnReturned /\ fnDifficulty = "good") =>
    /\ fnCard.repetitions = 0 => FnResult.interval = Whole(1)
    /\ fnCard.repetitions = 1 => FnResult.interval = Whole(6)
    /\ fnCard.repetitions >= 2 =>
         FnResult.interval =
           Whole(MathRound(fnCard.interval.num * fnCard.easeFactor,
                           fnCard.interval.den * 100))
    /\ FnResult.repetitions = fnCard.repetitions + 1
    /\ FnResult.easeFactor = fnCard.easeFactor

\* 7 days at ease 2.5 is 17.5, rounded up to 18
C6_Witness ==
  /\ FnReturned /\ fnDifficulty = "good"
  /\ fnCard = FnCard(250, 7, 2)
  /\ FnResult.interval = Whole(18) /\ FnResult.repetitions = 3

\* C7: 'easy' returns interval 4 for repetitions 0, 6 for repetitions 1 and
\* round(i * e * 1.3) from repetitions 2 on, e being the ease factor before
\* the bump; repetitions becomes r + 1 and easeFactor e + 0.1, unbounded.
C7_EasyRows ==
  (FnReturned /\ fnDifficulty = "easy") =>
    /\ fnCard.repetitions = 0 => FnResult.interval = Whole(4)
    /\ fnCard.repetitions = 1 => FnResult.interval = Whole(6)
    /\ fnCard.repetitions >= 2 =>
         FnResult.interval =
           Whole(MathRound(fnCard.interval.num * fnCard.easeFactor * 13,
                           fnCard.interval.den * 1000))
    /\ FnResult.repetitions = fnCard.repetitions + 1
    /\ FnResult.easeFactor = fnCard.easeFactor + 10

\* 10 days at ease 2.5 give round(32.5) = 33; the bumped 2.6 would give 34
C7_Witness ==
  /\ FnReturned /\ fnDifficulty = "easy"
  /\ fnCard = FnCard(250, 10, 2)
  /\ FnResult.interval = Whole(33) /\ FnResult.easeFactor = 260

\* C8: the returned repetitions is 0 exactly when the difficulty is 'again';
\* for every other difficulty it is the previous repetitions plus 1.
C8_RepetitionsReset ==
  FnReturned =>
    /\ (FnResult.repetitions = 0) <=> (fnDifficulty = "again")
    /\ fnDifficulty # "again" => FnResult.repetitions = fnCard.repetitions + 1

C8_Witness ==
  /\ FnReturned /\ fnDifficulty = "again"
  /\ fnCard.repetitions = 3 /\ FnResult.repetitions = 0

\* C9: lastReviewed is the evaluation instant and nextReview - lastReviewed
\* is exactly the returned interval times 24 hours.
C9_NextReviewIsIntervalDays ==
  FnReturned =>
    /\ FnResult.lastReviewed = fnNow
    /\ (FnResult.nextReview - FnResult.lastReviewed) * FnResult.interval.den
         = FnResult.interval.num * DAY

\* a card at 5 days answered 'hard' is due again 6 days later
C9_Witness ==
  /\ FnReturned /\ fnDifficulty = "hard"
  /\ fnCard.interval = Whole(5)
  /\ FnResult.nextReview = fnNow + 6 * DAY

\* C18: a stored interval below 0 or a stored easeFactor below 1.3 is clamped:
\* every difficulty then returns interval >= 1 and easeFactor >= 1.3.
C18_OutOfRangeClamped ==
  (FnReturned /\ (fnCard.interval.num < 0
                    \/ fnCard.easeFactor < MINIMUM_EASE_FACTOR)) =>
    /\ FnResult.easeFactor >= MINIMUM_EASE_FACTOR
    /\ FracGeq(FnResult.interval, Whole(MINIMUM_INTERVAL))

(***************************************************************************)
(* Properties of a card's review history (SpecChain)                       *)
(***************************************************************************)
ChReviewed == chDelta # << >>

\* C2: from a newly created card, after every review the easeFactor is at
\* least 1.3 and the interval at least 1 day.
C2_FloorsAlongReviews ==
  ChReviewed =>
    /\ chDelta[1].easeFactor >= MINIMUM_EASE_FACTOR
    /\ FracGeq(chDelta[1].interval, Whole(MINIMUM_INTERVAL))
    /\ chCard.easeFactor >= MINIMUM_EASE_FACTOR
    /\ FracGeq(chCard.interval, Whole(MINIMUM_INTERVAL))

\* the second 'again' in a row would take 1.7 down to 0.9
C2_Witness ==
  /\ chCount >= 2
  /\ chCard.difficulty = "again"
  /\ chCard.easeFactor = MINIMUM_EASE_FACTOR
  /\ chCard.interval = Whole(1)

\* C20: a brand-new card answered 'good' three times in a row goes through
\* (interval 1, repetitions 1), (interval 6, repetitions 2) and
\* (interval 15, repetitions 3), with easeFactor 2.5 after each review.
C20_ThreeGoods ==
  /\ chHistory = <<"good">> =>
        /\ chCard.interval = Whole(1) /\ chCard.repetitions = 1
        /\ chCard.easeFactor = 250
  /\ chHistory = <<"good", "good">> =>
        /\ chCard.interval = Whole(6) /\ chCard.repetitions = 2
        /\ chCard.easeFactor = 250
  /\ chHistory = <<"good", "good", "good">> =>
        /\ chCard.interval = Whole(15) /\ chCard.repetitions = 3
        /\ chCard.easeFactor = 250
  /\ (ChReviewed /\ \A k \in 1..Len(chHistory) : chHistory[k] = "good") =>
        /\ chDelta[1].interval = chCard.interval
        /\ chDelta[1].repetitions = chCard.repetitions
        /\ chDelta[1].easeFactor = chCard.easeFactor

C20_Witness ==
  /\ chHistory = <<"good", "good", "good">>
  /\ chCard.interval = Whole(15)
  /\ chCard.nextReview = chNow + 15 * DAY

\* C3: from a newly created card, the interval returned by every review is
\* an integer number of days.
C3_IntervalIsInteger ==
  ChReviewed => IsWhole(chDelta[1].interval)

(***************************************************************************)
(* Properties of one selection (SpecSel)                                   *)
(***************************************************************************)
\* a sequence of cards taken from selCards, each once and in input order
InInputOrder(result) ==
  /\ \A k \in 1..Len(result) :
       /\ result[k].id \in 1..Len(selCards)
       /\ result[k] = selCards[result[k].id]
  /\ \A k \in 1..Len(result) - 1 : result[k].id < result[k + 1].id

ResultIds(result) == { result[k].id : k \in 1..Len(result) }

\* C11: getDueCards returns exactly the input cards whose nextReview <= now,
\* each once and in input order, and the empty sequence for an empty input;
\* the result is thereby a function of the cards and of now.
C11_DueExactly ==
  selDue # << >> =>
    /\ InInputOrder(selDue[1])
    /\ ResultIds(selDue[1]) =
         { i \in 1..Len(selCards) : selCards[i].nextReview <= selNow }
    /\ selCards = << >> => selDue[1] = << >>

\* a card due exactly now is returned, a card due later is not
C11_Witness ==
  /\ selDue # << >>
  /\ Len(selCards) = 3
  /\ selCards[1].nextReview > selNow
  /\ selCards[2].nextReview = selNow
  /\ selCards[3].nextReview < selNow
  /\ ResultIds(selDue[1]) = {2, 3}

\* C12: getNewCards returns at most limit cards, each with repetitions 0:
\* the first limit cards with repetitions 0, in input order.
C12_NewFirstLimit ==
  selNew # << >> =>
    /\ Len(selNew[1]) <= selLimit
    /\ \A k \in 1..Len(selNew[1]) : selNew[1][k].repetitions = 0
    /\ InInputOrder(selNew[1])
    /\ ResultIds(selNew[1]) =
         { i \in 1..Len(selCards) :
             /\ selCards[i].repetitions = 0
             /\ Cardinality({ j \in 1..(i - 1) : selCards[j].repetitions = 0 })
                  < selLimit }

\* a reviewed card first, then more new cards than the limit admits
C12_Witness ==
  /\ selNew # << >>
  /\ selLimit = 1
  /\ Len(selCards) = 3
  /\ selCards[1].repetitions = 1
  /\ selCards[2].repetitions = 0
  /\ selCards[3].repetitions = 0
  /\ ResultIds(selNew[1]) = {2}

(***************************************************************************)
(* Properties of the review session (Spec)                                 *)
(***************************************************************************)
\* C10: in the session queue no card appears twice: no card of the deck is
\* selected both as due and as new.
C10_NoCardTwiceInQueue ==
  \A i, j \in 1..Len(reviewQueue) :
    i # j => reviewQueue[i].id # reviewQueue[j].id

\* the steps of startReview that start a session, and those of handleAnswer
SessionStarts == currentView = "decks" /\ currentView' = "review"
AnswerStep == answers' = answers + 1

\* the session states of the review view: a card is shown, or the
\* 'Session Complete!' screen is
InProgress == currentView = "review" /\ Len(reviewQueue) > 0
Complete == currentView = "review" /\ Len(reviewQueue) = 0

\* the ids of a sequence of cards, in order
IdsOf(cards) == [ k \in 1..Len(cards) |-> cards[k].id ]
Increasing(ids) == \A k \in 1..Len(ids) - 1 : ids[k] < ids[k + 1]
Range(seq) == { seq[k] : k \in 1..Len(seq) }

\* C13: the queue built by startReview is the due cards of the deck followed
\* by its new cards, each part in input order.
C13_DueThenNew ==
  [][ SessionStarts =>
        LET deck == { c \in Range(flashcards) : c.deckId = reviewQueue'[1].deckId }
            due == { c \in deck : c.nextReview <= now }
            new == { c \in deck :
                       /\ c.repetitions = 0
                       /\ Cardinality({ b \in deck : b.repetitions = 0 /\ b.id < c.id })
                            < NEW_CARD_LIMIT }
            n == Cardinality(due)
            duePart == SubSeq(reviewQueue', 1, n)
            newPart == SubSeq(reviewQueue', n + 1, Len(reviewQueue'))
        IN  /\ Len(reviewQueue') = n + Cardinality(new)
            /\ Range(duePart) = due /\ Increasing(IdsOf(duePart))
            /\ Range(newPart) = new /\ Increasing(IdsOf(newPart))
    ]_vars

\* a reviewed card that is due again comes before a card never reviewed
C13_Witness ==
  /\ InProgress
  /\ sessionStats.reviewed = 0
  /\ Len(reviewQueue) = 3
  /\ reviewQueue[1].repetitions > 0
  /\ reviewQueue[3].repetitions = 0
  /\ reviewQueue[1].id # reviewQueue[3].id

\* C14: each accepted answer removes exactly the head card from the
\* remaining queue, and when the remaining queue becomes empty the session
\* goes from InProgress to Complete.
C14_AnswerAdvancesToComplete ==
  [][ AnswerStep =>
        /\ InProgress
        /\ reviewQueue' = Tail(reviewQueue)
        /\ Len(reviewQueue') = Len(reviewQueue) - 1
        /\ reviewQueue' = << >> => Complete'
    ]_vars

\* C15: when the combined queue of the deck is empty, startReview starts no
\* session: the view stays on the deck list and reviewQueue, currentCard and
\* sessionStats are unchanged; the selections are empty sequences.
C15_EmptyQueueStartsNothing ==
  [][ /\ (~alertShown /\ alertShown') =>
           /\ currentView = "decks"
           /\ UNCHANGED <<currentView, reviewQueue, currentCard, sessionStats>>
           /\ \E deckId \in DeckIds :
                LET cards == deckFlashcards(flashcards, deckId)
                IN  /\ getDueCards(cards, now) = << >>
                    /\ getNewCards(cards, NEW_CARD_LIMIT) = << >>
      /\ SessionStarts =>
           /\ Len(reviewQueue') > 0
           /\ currentCard' = << reviewQueue'[1] >>
    ]_vars

\* the deck holds cards, none of them due or new, and 'Study' was refused
C15_Witness ==
  /\ alertShown
  /\ currentView = "decks"
  /\ flashcards # << >>
  /\ \A k \in 1..Len(flashcards) :
       flashcards[k].repetitions > 0 /\ flashcards[k].nextReview > now

\* C16: during a session the queue is never rebuilt: whatever an answer
\* writes to the stored cards, the remaining queue only loses its head.
C16_QueueNotRebuilt ==
  [][ InProgress =>
        \/ reviewQueue' = reviewQueue
        \/ AnswerStep /\ reviewQueue' = Tail(reviewQueue)
    ]_vars

\* the stored card has been rescheduled; the queue still holds it as it was
C16_Witness ==
  /\ InProgress
  /\ sessionStats.reviewed > 0
  /\ \E k \in 1..Len(flashcards) :
       /\ flashcards[k].id = reviewQueue[1].id
       /\ flashcards[k].repetitions # reviewQueue[1].repetitions

\* the scheduling fields of a card
Scheduling(card) ==
  << card.easeFactor, card.interval, card.repetitions, card.lastReviewed,
     card.nextReview, card.difficulty >>

\* the cards of 'after' that 'before' holds too, paired by id
SameCards(before, after) ==
  { <<b, a>> \in Range(before) \X Range(after) : b.id = a.id }

EditStep == editingCard # << >> /\ editingCard' = << >>

\* C19: only review events change scheduling fields: a content edit leaves
\* the six scheduling fields of the card unchanged, and no update touches
\* another card.
C19_OnlyReviewsReschedule ==
  [][ (flashcards' # flashcards \/ db' # db) =>
      /\ ~AnswerStep =>
           /\ \A p \in SameCards(flashcards, flashcards') :
                Scheduling(p[1]) = Scheduling(p[2])
           /\ \A p \in SameCards(db, db') : Scheduling(p[1]) = Scheduling(p[2])
      /\ EditStep =>
           /\ \A p \in SameCards(flashcards, flashcards') :
                p[1].id # editingCard[1].id => p[1] = p[2]
           /\ \A p \in SameCards(db, db') :
                p[1].id # editingCard[1].id => p[1] = p[2]
      /\ AnswerStep =>
           /\ \A p \in SameCards(flashcards, flashcards') :
                p[1].id # currentCard[1].id => p[1] = p[2]
           /\ \A p \in SameCards(db, db') :
                p[1].id # currentCard[1].id => p[1] = p[2]
    ]_vars

\* a reviewed card has been edited next to a card left as created
C19_Witness ==
  /\ currentView = "cards"
  /\ Len(flashcards) = 2
  /\ \E k \in 1..2 :
       /\ flashcards[k].front = "edited"
       /\ flashcards[k].repetitions > 0
       /\ flashcards[k].lastReviewed # 0
       /\ db[k] = flashcards[k]
       /\ flashcards[3 - k] = NewCard(3 - k, flashcards[3 - k].deckId,
                                      flashcards[3 - k].nextReview)

(***************************************************************************)
(* Properties of the twelve-card deck (SpecScenario)                       *)
(***************************************************************************)
\* the cards of the list that are reviewed and due, and those never learned
ScenarioDue == SelectSeq(selCards, LAMBDA card :
                 card.nextReview < selNow /\ card.repetitions > 0)
ScenarioNew == SelectSeq(selCards, LAMBDA card : card.repetitions = 0)

\* C21: for twelve cards of which three are due with repetitions > 0 and five
\* have repetitions 0, the queue built with limit 10 has length 8: the three
\* due cards, then the five new cards, in list order, no card twice.
C21_ScenarioQueue ==
  (/\ selQueue # << >>
   /\ Len(selCards) = 12 /\ Len(ScenarioDue) = 3 /\ Len(ScenarioNew) = 5)
  => /\ Len(selQueue[1]) = 8
     /\ selQueue[1] = ScenarioDue \o ScenarioNew
     /\ \A i, j \in 1..Len(selQueue[1]) :
          i # j => selQueue[1][i].id # selQueue[1][j].id

(***************************************************************************)
(* Properties of the stored scheduling state (Spec)                        *)
(***************************************************************************)
\* the stored row of a card
RowOf(id) == db[CHOOSE k \in 1..Len(db) : db[k].id = id]

\* C22: every update handleAnswer persists is computed from the card's most
\* recent scheduling state: the card it reads carries the scheduling fields
\* the stored row has when the answer is given.
C22_UpdateFromLatestState ==
  [][ (AnswerStep /\ db' # db)
        => Scheduling(currentCard[1]) = Scheduling(RowOf(currentCard[1].id)) ]_vars

(***************************************************************************)
(* Properties of the session state (Spec)                                  *)
(***************************************************************************)
\* C23: whenever the view is 'review' the remaining queue is non-empty and
\* currentCard is its first element; the review view is never shown with an
\* empty queue.
C23_ReviewShowsQueueHead ==
  currentView = "review"
    => /\ Len(reviewQueue) > 0
       /\ currentCard = << reviewQueue[1] >>

\* a session in which one card has been answered and the next one is shown
C23_Witness ==
  /\ currentView = "review"
  /\ sessionStats.reviewed >= 1
  /\ currentCard = << reviewQueue[1] >>

\* C24: sessionStats.reviewed plus the length of the remaining queue is the
\* length of the queue the session started with, and sessionStats.correct is
\* the number of 'good' or 'easy' answers given (hence correct <= reviewed).
\* Stated of every state, so also of the one the last answer leaves.
C24_StatsCountAnswers ==
  /\ sessionStats.reviewed + Len(reviewQueue) = sessionLength
  /\ sessionStats.correct = goodAnswers
  /\ sessionStats.correct <= sessionStats.reviewed

\* a session of two cards after one 'good' or 'easy' answer
C24_Witness ==
  /\ InProgress
  /\ sessionLength = 2
  /\ sessionStats.reviewed = 1
  /\ sessionStats.correct = 1

(***************************************************************************)
(* Properties of one call of updateFlashcard (SpecUpdate)                  *)
(***************************************************************************)
UpdateStep == updCall = << >> /\ updCall' # << >>

\* C25: when the backend rejects the update the local list is unchanged and
\* the error is recorded; when it accepts, exactly the card with the given id
\* changes and it holds the fields of the delta.
C25_RejectKeepsAcceptMerges ==
  [][ UpdateStep =>
        LET call == updCall'[1]
        IN  IF ~call.accepted
              THEN flashcards' = flashcards /\ error' = TRUE
              ELSE /\ Len(flashcards') = Len(flashcards)
                   /\ \A k \in 1..Len(flashcards) :
                        IF flashcards[k].id = call.flashcardId
                          THEN \A f \in DOMAIN flashcards[k] :
                                 flashcards'[k][f] =
                                   IF f \in DOMAIN call.updates
                                     THEN call.updates[f] ELSE flashcards[k][f]
                          ELSE flashcards'[k] = flashcards[k] ]_vars

\* a scheduling update of the second of two cards was rejected
C25_Witness ==
  /\ updCall # << >>
  /\ ~updCall[1].accepted
  /\ "interval" \in DOMAIN updCall[1].updates
  /\ updCall[1].flashcardId = 2
  /\ error

(***************************************************************************)
(* Properties of the recorded activities (SpecActivity)                    *)
(***************************************************************************)
RECURSIVE SumSeq(_)
SumSeq(seq) == IF seq = << >> THEN 0 ELSE Head(seq) + SumSeq(Tail(seq))

\* no call of updateUser is awaiting the backend and none has failed
UserSettled == userCalls = << >> /\ ~userError

\* C26: once the updates have come back, totalHours has grown by the sum of
\* the durations of the activities recorded, also when one was recorded
\* before the update of the one before it had refreshed the user.
C26_NoDurationLost ==
  UserSettled
    => /\ user.totalHours = SumSeq(recorded)
       /\ usersRow.total_hours = SumSeq(recorded)

\* the watches of an episode recorded so far, in the given study modes
WatchesOf(e, modes) ==
  Len(SelectSeq(watches, LAMBDA w : w[1] = e /\ w[2] \in modes))

\* no call of updateShow is awaiting the backend and none has failed
ShowsRefetched == showCalls = 0 /\ ~showsError

\* C27: once the show list has been refetched after a watch recorded through
\* handleStudyModeSelect, the episode's watchCount in the list is one greater
\* for each watch, and so is the passive or active count of the chosen mode.
C27_WatchCounted ==
  ShowsRefetched
    => \A e \in DOMAIN shows :
         /\ shows[e].watchCount = WatchesOf(e, StudyModes)
         /\ shows[e].passiveWatchCount = WatchesOf(e, {"passive"})
         /\ shows[e].activeWatchCount = WatchesOf(e, {"active"})

(***************************************************************************)
(* Properties of the decks and their cards (SpecDecks)                     *)
(***************************************************************************)
\* every call has returned and no backend call answered with an error
DecksSettled == calls = << >> /\ ~backendFailed

\* the number of stored flashcards of a deck
StoredIn(deckId) == Len(SelectSeq(db, LAMBDA card : card.deckId = deckId))

\* C28: after addFlashcard and deleteFlashcard operations whose backend calls
\* succeed, each deck's card_count is the number of flashcards stored in the
\* deck, and it is never negative.
C28_CardCountMatches ==
  DecksSettled
    => \A k \in 1..Len(deckRows) :
         /\ deckRows[k].card_count = StoredIn(deckRows[k].id)
         /\ deckRows[k].card_count >= 0

\* C29: a flashcard created with a deck name for which no deck exists yet
\* ends up stored in a newly created deck of that name.
C29_CardInCreatedDeck ==
  DecksSettled
    => \A r \in 1..Len(requested) :
         \E k \in 1..Len(deckRows) :
           /\ deckRows[k].name = requested[r].name
           /\ \E c \in 1..Len(db) :
                /\ db[c].id = requested[r].serial
                /\ db[c].deckId = deckRows[k].id

=============================================================================
